---- MODULE Spec2Model ----
(***************************************************************************)
(* State-machine model of the useAutocomplete hook (useAutocomplete.ts)    *)
(* and of the event handlers of the Autocomplete component that drive it   *)
(* (AutoComplete.tsx).                                                     *)
(*                                                                         *)
(* One action is one handler or one asynchronous continuation, taken       *)
(* together with the render and the effects React runs after it: the       *)
(* query effect (when `query` changed) and the highlight-reset effect.     *)
(* Strings are sequences of one-character strings, so that trim(),         *)
(* toLowerCase() and length are computed, not assumed.                     *)
(***************************************************************************)
EXTENDS Integers, Sequences, FiniteSets, TLC

(***************************************************************************)
(* Bounds of the model.                                                    *)
(***************************************************************************)
\* controllers (requests) created in one behaviour
MaxRequests == 2
\* the same, in the behaviours that fill the cache
MaxCacheRequests == 3
\* the hook parameter maxCache, where the cache is not the subject
SmallCache == 1
\* the hook parameter maxCache, in the behaviours that fill the cache
CacheSize == 2
\* the longest suggestion list, in the behaviours that navigate it
MaxListLen == 3
\* the largest step moveHighlight is called with, in the same behaviours
MaxDelta == 4
\* controllers created in one behaviour, where input and query are the subject
MaxInputRequests == 1

(***************************************************************************)
(* Program constants (constants.ts, DEFAULT_CONFIG).                       *)
(***************************************************************************)
MIN_CHARS == 1
RETRY_ATTEMPTS == 2
BACKOFF_BASE_MS == 150

(***************************************************************************)
(* Strings.                                                                *)
(***************************************************************************)
EmptyText == << >>

\* the texts a user types
Texts ==
  { << >>, <<" ">>, <<"a">>, <<"A", " ">>, <<"b">>, <<"a", "b">> }

\* the texts typed where typing is not the subject
FewTexts == { << >>, <<"a">>, <<"b">> }

\* the values of the hook parameter minChars
MinCharsValues == { MIN_CHARS, MIN_CHARS + 1 }

\* String.prototype.toLowerCase on one character
lowerChar(c) ==
  CASE c = "A" -> "a"
    [] c = "B" -> "b"
    [] OTHER -> c

\* String.prototype.toLowerCase
toLowerCase(s) == [i \in 1..Len(s) |-> lowerChar(s[i])]

RECURSIVE trimStart(_)
trimStart(s) ==
  IF s = << >> THEN s
  ELSE IF Head(s) = " " THEN trimStart(Tail(s)) ELSE s

RECURSIVE trimEnd(_)
trimEnd(s) ==
  IF s = << >> THEN s
  ELSE IF s[Len(s)] = " " THEN trimEnd(SubSeq(s, 1, Len(s) - 1)) ELSE s

\* String.prototype.trim
trim(s) == trimEnd(trimStart(s))

(***************************************************************************)
(* What fetchFn / selectionFn may resolve with: an array of items, or a    *)
(* value that is not an array.                                             *)
(***************************************************************************)
NotArray == [isArray |-> FALSE, items |-> << >>]

Payloads ==
  { [isArray |-> TRUE, items |-> << >>],
    [isArray |-> TRUE, items |-> << <<"a">>, <<"b">> >>],
    NotArray }

\* Array.isArray(data) ? data : []
coerce(data) == IF data.isArray THEN data.items ELSE << >>

\* the values handleSelection is called with
SelectionValues == { <<"b">> }

\* the lists setSuggestions is called with
SuggestionLists == { << >>, << <<"a">>, <<"b">> >> }

\* the deltas moveHighlight is called with
Deltas == { -1, 1 }

NoError == "null"
FETCH_FAILED == "Failed to fetch"
SELECTION_FAILED == "Failed to fetch related suggestions"

(***************************************************************************)
(* State.                                                                  *)
(***************************************************************************)
VARIABLES
  input,        \* useState('')
  query,        \* useState('')
  suggestions,  \* useState([])
  loading,      \* useState(false)
  error,        \* useState(null)
  highlight,    \* useState(-1)
  noResults,    \* useState(false)
  debounceRef,  \* the pending debounce timer and the q its callback captured
  abortRef,     \* the slot of the controller abortRef.current holds, 0 = none
  cacheRef,     \* the Map, as the sequence of its entries in insertion order
  requests,     \* slot -> the async function instance that owns a controller
  minChars,     \* hook parameter
  maxCache,     \* hook parameter
  hasSelectionFn, \* hook parameter selectionFn is given
  ev,           \* the last step taken (observation only)
  track         \* what the user did last and what came of it (observation only)

vars ==
  << input, query, suggestions, loading, error, highlight, noResults,
     debounceRef, abortRef, cacheRef, requests, minChars, maxCache,
     hasSelectionFn, ev, track >>

Slots == 1..(IF MaxCacheRequests > MaxRequests THEN MaxCacheRequests ELSE MaxRequests)

NoTimer == [armed |-> FALSE, q |-> EmptyText]

\* a controller not created yet
FreeSlot ==
  [ kind |-> "none", q |-> EmptyText, attempt |-> 0, phase |-> "free",
    aborted |-> FALSE, superseded |-> FALSE, calls |-> 0, delays |-> << >> ]

\* a controller whose async function has returned: nothing reads it again
DoneSlot == [FreeSlot EXCEPT !.phase = "done"]

Unfinished(req) == req.phase \in {"fetch", "backoff"}

\* the whole state as one record, so that setState calls compose in order
State ==
  [ input |-> input, query |-> query, suggestions |-> suggestions,
    loading |-> loading, error |-> error, highlight |-> highlight,
    noResults |-> noResults, debounceRef |-> debounceRef,
    abortRef |-> abortRef, cacheRef |-> cacheRef, requests |-> requests,
    minChars |-> minChars, maxCache |-> maxCache,
    hasSelectionFn |-> hasSelectionFn ]

\* the next state is the record s
Commit(s) ==
  /\ input' = s.input
  /\ query' = s.query
  /\ suggestions' = s.suggestions
  /\ loading' = s.loading
  /\ error' = s.error
  /\ highlight' = s.highlight
  /\ noResults' = s.noResults
  /\ debounceRef' = s.debounceRef
  /\ abortRef' = s.abortRef
  /\ cacheRef' = s.cacheRef
  /\ requests' = s.requests
  /\ minChars' = s.minChars
  /\ maxCache' = s.maxCache
  /\ hasSelectionFn' = s.hasSelectionFn

NoData == NotArray

\* observation of the step just taken: the operation, the slot it concerned,
\* the payload it delivered, the async function it continued (as it was before
\* the step), whether the query effect ran, the cache keys it removed, the
\* number the callback was called with (where observed, else 0) and whether
\* the highlight effect reset the highlight
Event(op, r, data, req, changed, removed, arg, reset) ==
  [op |-> op, r |-> r, data |-> data, req |-> req, changed |-> changed,
   removed |-> removed, arg |-> arg, reset |-> reset]

UserOps ==
  { "updateInput", "clear", "moveHighlight", "setHighlightIndex",
    "setSuggestions", "handleSelection", "handleSelect" }

\* observation of the user's last action:
\*   off      not observed in this behaviour
\*   other    nothing of the kinds below
\*   typed    updateInput(q) left a non-empty trimmed query that is not cached
\*   settled  since then the newest request, a fetch of that query, succeeded
\*            with `list`
\*   selected the component's handleSelect started selection request `r`
\*   cleared  clear() was called
\*   escaped  Escape was pressed, and since then only arrow keys
\*   unmounted the hook was unmounted
Track(tag, r, list) == [tag |-> tag, r |-> r, list |-> list]

(***************************************************************************)
(* The cache: a JavaScript Map, iterated in insertion order.               *)
(***************************************************************************)
\* Map.prototype.has
cacheHas(c, key) == \E i \in 1..Len(c) : c[i].key = key

\* Map.prototype.get
cacheGet(c, key) == c[CHOOSE i \in 1..Len(c) : c[i].key = key].val

\* Map.prototype.set: a present key keeps its place, a new key goes last
cacheSet(c, key, arr) ==
  IF cacheHas(c, key)
  THEN [i \in 1..Len(c) |->
          IF c[i].key = key THEN [key |-> key, val |-> arr] ELSE c[i]]
  ELSE Append(c, [key |-> key, val |-> arr])

\* mutant: the newest entry is deleted instead of the oldest
cacheEvict_newest(c, cap) ==
  IF Len(c) > cap
  THEN SubSeq(c, 1, Len(c) - 2) \o << c[Len(c)] >> ELSE c

\* if (cache.size > maxCache) cache.delete(cache.keys().next().value)
cacheEvict(c, cap) == IF Len(c) > cap THEN Tail(c) ELSE c

cacheKeys(c) == { c[i].key : i \in 1..Len(c) }

(***************************************************************************)
(* Controllers.                                                            *)
(***************************************************************************)
\* if (abortRef.current) abortRef.current.abort()
abortCurrent(s) ==
  IF s.abortRef # 0 /\ Unfinished(s.requests[s.abortRef])
  THEN [s EXCEPT !.requests[s.abortRef].aborted = TRUE]
  ELSE s

\* new AbortController(); abortRef.current = controller
mintController(s, r, kind, q) ==
  [s EXCEPT !.abortRef = r,
            !.requests[r] =
              [ kind |-> kind, q |-> q, attempt |-> 0, phase |-> "fetch",
                aborted |-> FALSE, superseded |-> FALSE, calls |-> 1,
                delays |-> << >> ]]

\* the async function returns: its controller is never read again, so an
\* abort() through abortRef.current after this point changes nothing
finish(s, r) == [s EXCEPT !.requests[r] = DoneSlot]

\* observation: every unfinished request is superseded by what starts now
\* (a changed query, or a newer request)
markSuperseded(s) ==
  [s EXCEPT !.requests =
     [r \in Slots |->
        IF Unfinished(s.requests[r])
        THEN [s.requests[r] EXCEPT !.superseded = TRUE]
        ELSE s.requests[r]]]

\* fewer than limit controllers have been created
canMint(s, limit) ==
  Cardinality({r \in Slots : s.requests[r].phase # "free"}) < limit

freeSlot(s) ==
  CHOOSE r \in Slots :
    /\ s.requests[r].phase = "free"
    /\ \A o \in Slots : s.requests[o].phase = "free" => r <= o

(***************************************************************************)
(* The hook's callbacks, as functions of the state record.                 *)
(***************************************************************************)
\* mutant: the first call only closes an open list, the next one clears
clear_stepwise(s) ==
  IF s.suggestions # << >>
  THEN [s EXCEPT !.suggestions = << >>, !.highlight = -1]
  ELSE [s EXCEPT !.input = EmptyText, !.query = EmptyText,
                 !.highlight = -1, !.noResults = FALSE, !.error = NoError]

clear(s) ==
  [s EXCEPT !.input = EmptyText, !.query = EmptyText, !.suggestions = << >>,
            !.highlight = -1, !.noResults = FALSE, !.error = NoError]

\* mutant: the query follows the input whatever its length
updateInput_noMinChars(s, val) ==
  [s EXCEPT !.input = val, !.highlight = -1, !.query = val]

updateInput(s, val) ==
  LET s1 == [s EXCEPT !.input = val, !.highlight = -1]
  IN  IF Len(val) >= s.minChars
      THEN [s1 EXCEPT !.query = val]
      ELSE [s1 EXCEPT !.query = EmptyText, !.suggestions = << >>,
                      !.noResults = FALSE, !.error = NoError]

setSuggestions(s, sugs) == [s EXCEPT !.suggestions = sugs]

\* mutant: the index stops at the ends of the list instead of wrapping
moveHighlight_clamp(s, delta) ==
  LET n == Len(s.suggestions)
      next0 == s.highlight + delta
      next1 == IF next0 < 0 THEN 0 ELSE next0
      next2 == IF next1 >= n THEN n - 1 ELSE next1
  IN  [s EXCEPT !.highlight = IF n = 0 THEN -1 ELSE next2]

moveHighlight(s, delta) ==
  LET n == Len(s.suggestions)
      next0 == s.highlight + delta
      next1 == IF next0 < 0 THEN n - 1 ELSE next0
      next2 == IF next1 >= n THEN 0 ELSE next1
  IN  [s EXCEPT !.highlight = IF n = 0 THEN -1 ELSE next2]

\* mutant: an index equal to the length of the list is accepted
setHighlightIndex_inclusive(s, idx) ==
  IF idx < -1 \/ idx > Len(s.suggestions) THEN s
  ELSE [s EXCEPT !.highlight = idx]

setHighlightIndex(s, idx) ==
  IF idx < -1 \/ idx >= Len(s.suggestions) THEN s
  ELSE [s EXCEPT !.highlight = idx]

\* handleSelection up to its await: the flags, the controller, the call
handleSelection(s, value) ==
  IF ~s.hasSelectionFn THEN s
  ELSE LET s1 == [s EXCEPT !.loading = TRUE, !.error = NoError,
                           !.noResults = FALSE]
       IN  mintController(markSuperseded(s1), freeSlot(s1), "selection", value)

\* AutoComplete.tsx handleSelect, up to the await inside handleSelection
handleSelect(s, word) ==
  handleSelection(setSuggestions(updateInput(s, word), << >>), word)

(***************************************************************************)
(* The effects.                                                            *)
(***************************************************************************)
\* mutant: the effect does not clear the pending timer
queryEffect_keepTimer(s) ==
  LET s1 == abortCurrent(s)
      q == trim(s1.query)
      key == toLowerCase(q)
  IN  IF q = EmptyText THEN s1
      ELSE IF cacheHas(s1.cacheRef, key)
      THEN LET data == cacheGet(s1.cacheRef, key)
           IN  [s1 EXCEPT !.suggestions = data,
                          !.noResults = (Len(data) = 0)]
      ELSE [s1 EXCEPT !.debounceRef = [armed |-> TRUE, q |-> q]]

\* mutant: the effect does not abort the controller in abortRef
queryEffect_noAbort(s) ==
  LET s1 == [s EXCEPT !.debounceRef = NoTimer]
      q == trim(s1.query)
      key == toLowerCase(q)
  IN  IF q = EmptyText THEN s1
      ELSE IF cacheHas(s1.cacheRef, key)
      THEN LET data == cacheGet(s1.cacheRef, key)
           IN  [s1 EXCEPT !.suggestions = data,
                          !.noResults = (Len(data) = 0)]
      ELSE [s1 EXCEPT !.debounceRef = [armed |-> TRUE, q |-> q]]

\* mutant: the cache is looked up under the query as typed (no toLowerCase)
queryEffect_caseSensitive(s) ==
  LET s1 == abortCurrent([s EXCEPT !.debounceRef = NoTimer])
      q == trim(s1.query)
      key == q
  IN  IF q = EmptyText THEN s1
      ELSE IF cacheHas(s1.cacheRef, key)
      THEN LET data == cacheGet(s1.cacheRef, key)
           IN  [s1 EXCEPT !.suggestions = data,
                          !.noResults = (Len(data) = 0)]
      ELSE [s1 EXCEPT !.debounceRef = [armed |-> TRUE, q |-> q]]

\* useEffect(..., [query, ...]): the previous run's cleanup and this run
queryEffect(s) ==
  LET s1 == abortCurrent([s EXCEPT !.debounceRef = NoTimer])
      q == trim(s1.query)
      key == toLowerCase(q)
  IN  IF q = EmptyText THEN s1
      ELSE IF cacheHas(s1.cacheRef, key)
      THEN LET data == cacheGet(s1.cacheRef, key)
           IN  [s1 EXCEPT !.suggestions = data,
                          !.noResults = (Len(data) = 0)]
      ELSE [s1 EXCEPT !.debounceRef = [armed |-> TRUE, q |-> q]]

\* mutant: the effect leaves an index that is out of range
highlightEffect_noReset(s) == s

\* mutant: the effect moves an index that is out of range to the last item
highlightEffect_clamp(s) ==
  IF s.highlight >= Len(s.suggestions)
  THEN [s EXCEPT !.highlight = Len(s.suggestions) - 1]
  ELSE s

\* useEffect(..., [suggestions, highlight])
highlightEffect(s) ==
  IF s.highlight >= Len(s.suggestions) THEN [s EXCEPT !.highlight = -1]
  ELSE s

\* the render after a handler that took state `old` to `s`, with its effects
render(old, s) ==
  highlightEffect(
    IF s.query # old.query THEN queryEffect(markSuperseded(s)) ELSE s)

(***************************************************************************)
(* The debounce callback and its continuations.                            *)
(***************************************************************************)
\* the timer fires: flags, controller, first fetchFn call
debounceFired(s) ==
  LET s1 == [s EXCEPT !.loading = TRUE, !.error = NoError,
                      !.noResults = FALSE, !.debounceRef = NoTimer]
  IN  mintController(markSuperseded(s1), freeSlot(s1), "primary",
                     s.debounceRef.q)

\* mutant: the result is cached before the aborted check
fetchResolved_cacheAborted(s, r, data) ==
  LET arr == coerce(data)
      key == toLowerCase(s.requests[r].q)
      c == cacheEvict(cacheSet(s.cacheRef, key, arr), s.maxCache)
  IN  IF s.requests[r].aborted THEN finish([s EXCEPT !.cacheRef = c], r)
      ELSE finish([s EXCEPT !.cacheRef = c, !.suggestions = arr,
                            !.noResults = (Len(arr) = 0),
                            !.loading = FALSE], r)

\* await fetchFn(...) resolved with data
fetchResolved(s, r, data) ==
  IF s.requests[r].aborted THEN finish(s, r)
  ELSE LET arr == coerce(data)
           key == toLowerCase(s.requests[r].q)
           c == cacheEvict(cacheSet(s.cacheRef, key, arr), s.maxCache)
       IN  finish([s EXCEPT !.cacheRef = c, !.suggestions = arr,
                            !.noResults = (Len(arr) = 0),
                            !.loading = FALSE], r)

\* mutant: the first failure is already terminal (no retry)
fetchRejected_noRetry(s, r) ==
  IF s.requests[r].aborted THEN finish(s, r)
  ELSE finish([s EXCEPT !.error = FETCH_FAILED, !.suggestions = << >>,
                        !.loading = FALSE], r)

\* await fetchFn(...) rejected
fetchRejected(s, r) ==
  IF s.requests[r].aborted THEN finish(s, r)
  ELSE IF s.requests[r].attempt = RETRY_ATTEMPTS - 1
  THEN finish([s EXCEPT !.error = FETCH_FAILED, !.suggestions = << >>,
                        !.loading = FALSE], r)
  ELSE [s EXCEPT !.requests[r].phase = "backoff",
                 !.requests[r].delays =
                    Append(@, BACKOFF_BASE_MS * (s.requests[r].attempt + 1))]

\* the backoff promise resolved: attempt += 1 and the next fetchFn call
backoffElapsed(s, r) ==
  [s EXCEPT !.requests[r].attempt = @ + 1,
            !.requests[r].phase = "fetch",
            !.requests[r].calls = @ + 1]

\* await selectionFn(...) resolved with data
selectionResolved(s, r, data) ==
  IF s.requests[r].aborted THEN finish(s, r)
  ELSE LET arr == coerce(data)
       IN  finish([s EXCEPT !.suggestions = arr,
                            !.noResults = (Len(arr) = 0),
                            !.loading = FALSE, !.highlight = -1], r)

\* mutant: a failed selection reports the primary fetch's message
selectionRejected_genericMessage(s, r) ==
  IF s.requests[r].aborted THEN finish(s, r)
  ELSE finish([s EXCEPT !.error = FETCH_FAILED, !.suggestions = << >>,
                        !.loading = FALSE], r)

\* await selectionFn(...) rejected
selectionRejected(s, r) ==
  IF s.requests[r].aborted THEN finish(s, r)
  ELSE finish([s EXCEPT !.error = SELECTION_FAILED, !.suggestions = << >>,
                        !.loading = FALSE], r)

(***************************************************************************)
(* The state after the first render and its effects, for given parameters. *)
(***************************************************************************)
Mounted(mins, cap, sels, tracked) ==
  /\ input = EmptyText
  /\ query = EmptyText
  /\ suggestions = << >>
  /\ loading = FALSE
  /\ error = NoError
  /\ highlight = -1
  /\ noResults = FALSE
  /\ debounceRef = NoTimer
  /\ abortRef = 0
  /\ cacheRef = << >>
  /\ requests = [r \in Slots |-> FreeSlot]
  /\ minChars \in mins
  /\ maxCache = cap
  /\ hasSelectionFn \in sels
  /\ ev = Event("mount", 0, NoData, FreeSlot, FALSE, {}, 0, FALSE)
  /\ track = Track(IF tracked THEN "other" ELSE "off", 0, << >>)

(***************************************************************************)
(* Actions: the hook's API.                                                *)
(***************************************************************************)
trackNext(after, op, r, data, req) ==
  IF track.tag = "off" THEN track
  ELSE IF op = "updateInput"
  THEN LET q == trim(after.query)
       IN  IF q # EmptyText /\ ~cacheHas(after.cacheRef, toLowerCase(q))
           THEN Track("typed", 0, << >>)
           ELSE Track("other", 0, << >>)
  ELSE IF op = "handleSelect" THEN Track("selected", r, << >>)
  ELSE IF op = "clear" THEN Track("cleared", 0, << >>)
  ELSE IF op = "unmount" THEN Track("unmounted", 0, << >>)
  ELSE IF op = "keyEscape" THEN Track("escaped", 0, << >>)
  ELSE IF op = "moveHighlight" /\ track.tag = "escaped" THEN track
  ELSE IF op \in UserOps THEN Track("other", 0, << >>)
  ELSE IF /\ op = "fetchResolve"
          /\ track.tag = "typed"
          /\ ~req.aborted
          /\ abortRef = r
          /\ req.q = trim(query)
  THEN Track("settled", 0, coerce(data))
  ELSE track

\* a handler or continuation took the state to s; the render and its effects
\* follow; arg is the number the callback was called with
StepWith(s, op, r, data, req, arg) ==
  LET after == render(State, s)
  IN  /\ Commit(after)
      /\ ev' = Event(op, r,
                     IF req.aborted /\ req.kind = "primary" THEN NoData ELSE data,
                     req, s.query # query,
                     cacheKeys(cacheRef) \ cacheKeys(after.cacheRef),
                     arg, after.highlight # s.highlight)
      /\ track' = trackNext(after, op, r, data, req)

Step(s, op, r, data, req) == StepWith(s, op, r, data, req, 0)

UpdateInput(T) ==
  \E val \in T :
    Step(updateInput(State, val), "updateInput", 0, NoData, FreeSlot)

Clear == Step(clear(State), "clear", 0, NoData, FreeSlot)

MoveHighlight ==
  \E delta \in Deltas :
    Step(moveHighlight(State, delta), "moveHighlight", 0, NoData, FreeSlot)

SetHighlightIndex ==
  \E idx \in -2..2 :
    Step(setHighlightIndex(State, idx), "setHighlightIndex", 0, NoData, FreeSlot)

SetSuggestions ==
  \E sugs \in SuggestionLists :
    Step(setSuggestions(State, sugs), "setSuggestions", 0, NoData, FreeSlot)

HandleSelection(limit) ==
  \E value \in SelectionValues :
    /\ hasSelectionFn => canMint(State, limit)
    /\ Step(handleSelection(State, value), "handleSelection",
            IF hasSelectionFn THEN freeSlot(State) ELSE 0, NoData, FreeSlot)

(***************************************************************************)
(* Actions: timers and promises.                                           *)
(***************************************************************************)
DebounceFire(limit) ==
  /\ debounceRef.armed
  /\ canMint(State, limit)
  /\ Step(debounceFired(State), "debounceFire", freeSlot(State), NoData, FreeSlot)

FetchResolve ==
  \E r \in Slots, data \in Payloads :
    /\ requests[r].kind = "primary"
    /\ requests[r].phase = "fetch"
    /\ Step(fetchResolved(State, r, data), "fetchResolve", r, data, requests[r])

FetchReject ==
  \E r \in Slots :
    /\ requests[r].kind = "primary"
    /\ requests[r].phase = "fetch"
    /\ Step(fetchRejected(State, r), "fetchReject", r, NoData, requests[r])

BackoffElapse ==
  \E r \in Slots :
    /\ requests[r].phase = "backoff"
    /\ Step(backoffElapsed(State, r), "backoffElapse", r, NoData, requests[r])

SelectionResolve ==
  \E r \in Slots, data \in Payloads :
    /\ requests[r].kind = "selection"
    /\ requests[r].phase = "fetch"
    /\ Step(selectionResolved(State, r, data), "selectionResolve", r, data, requests[r])

SelectionReject ==
  \E r \in Slots :
    /\ requests[r].kind = "selection"
    /\ requests[r].phase = "fetch"
    /\ Step(selectionRejected(State, r), "selectionReject", r, NoData, requests[r])

(***************************************************************************)
(* Actions: the component's event handlers.                                *)
(***************************************************************************)
HandleSelect(word, limit) ==
  /\ canMint(State, limit)
  /\ Step(handleSelect(State, word), "handleSelect", freeSlot(State), NoData,
          FreeSlot)

\* Enter or Tab on the highlighted suggestion
KeyEnterOrTab(limit) ==
  /\ highlight >= 0
  /\ highlight < Len(suggestions)
  /\ suggestions[highlight + 1] # EmptyText
  /\ HandleSelect(suggestions[highlight + 1], limit)

\* mouse down on an item of the rendered list
ItemMouseDown(limit) ==
  /\ ~loading
  /\ \E i \in 1..Len(suggestions) : HandleSelect(suggestions[i], limit)

\* handleKeyDown, Escape: close an open list, else clear a non-empty input
keyEscape(s) ==
  IF Len(s.suggestions) > 0
  THEN setHighlightIndex(setSuggestions(s, << >>), -1)
  ELSE IF s.input # EmptyText THEN clear(s)
  ELSE s

KeyEscape == Step(keyEscape(State), "keyEscape", 0, NoData, FreeSlot)

\* the regions the component renders
ShowsLoading == loading

ShowsError == error # NoError

ShowsNoResults ==
  noResults /\ ~loading /\ error = NoError /\ input # EmptyText

ShowsList == Len(suggestions) > 0 /\ ~loading

(***************************************************************************)
(* The hook, driven through its whole API.                                 *)
(***************************************************************************)
Init == Mounted({MIN_CHARS}, SmallCache, BOOLEAN, FALSE)

Next ==
  \/ UpdateInput(FewTexts)
  \/ Clear
  \/ MoveHighlight
  \/ SetHighlightIndex
  \/ SetSuggestions
  \/ HandleSelection(MaxRequests)
  \/ DebounceFire(MaxRequests)
  \/ FetchResolve
  \/ FetchReject
  \/ BackoffElapse
  \/ SelectionResolve
  \/ SelectionReject

Spec == Init /\ [][Next]_vars

(***************************************************************************)
(* Typing only: updateInput calls, debounce-timer fires, fetch completions *)
(* and backoff expiries.                                                   *)
(***************************************************************************)
InitTyping == Mounted(MinCharsValues, SmallCache, {FALSE}, FALSE)

NextTyping ==
  \/ UpdateInput(Texts)
  \/ DebounceFire(MaxRequests)
  \/ FetchResolve
  \/ FetchReject
  \/ BackoffElapse

SpecTyping == InitTyping /\ [][NextTyping]_vars

(***************************************************************************)
(* Filling the cache: typing with a fetchFn that succeeds.                 *)
(***************************************************************************)
InitCache == Mounted({MIN_CHARS}, CacheSize, {FALSE}, FALSE)

NextCache ==
  \/ UpdateInput(Texts)
  \/ DebounceFire(MaxCacheRequests)
  \/ FetchResolve

SpecCache == InitCache /\ [][NextCache]_vars

(***************************************************************************)
(* What reaches the cache: typing and selecting, with fetchFn and          *)
(* selectionFn succeeding or failing.                                      *)
(***************************************************************************)
InitIntegrity == Mounted({MIN_CHARS}, SmallCache, {TRUE}, FALSE)

\* texts that differ in blanks and capitals, two of them with the same key
KeyTexts == { <<" ">>, <<"a">>, <<"A", " ">>, <<"b">> }

NextIntegrity ==
  \/ UpdateInput(KeyTexts)
  \/ HandleSelection(MaxRequests)
  \/ DebounceFire(MaxRequests)
  \/ FetchResolve
  \/ FetchReject
  \/ BackoffElapse
  \/ SelectionResolve
  \/ SelectionReject

SpecIntegrity == InitIntegrity /\ [][NextIntegrity]_vars

(***************************************************************************)
(* The whole API again, observing what the user did last.                  *)
(***************************************************************************)
InitTracked == Mounted({MIN_CHARS}, SmallCache, {TRUE}, TRUE)

SpecTracked == InitTracked /\ [][Next]_vars

(***************************************************************************)
(* The Autocomplete component: typing, arrow keys, choosing a suggestion.  *)
(***************************************************************************)
InitComponent == Mounted({MIN_CHARS}, SmallCache, {TRUE}, TRUE)

NextComponent ==
  \/ UpdateInput(FewTexts)
  \/ MoveHighlight
  \/ KeyEnterOrTab(MaxRequests)
  \/ ItemMouseDown(MaxRequests)
  \/ KeyEscape
  \/ DebounceFire(MaxRequests)
  \/ FetchResolve
  \/ FetchReject
  \/ BackoffElapse
  \/ SelectionResolve
  \/ SelectionReject

SpecComponent == InitComponent /\ [][NextComponent]_vars

(***************************************************************************)
(* Unmounting: typing and selections, then the effect's cleanup, after     *)
(* which only timers and promises already started can still act. From then *)
(* on the state variables record what those continuations write (React     *)
(* drops a setState of an unmounted component; the Map in cacheRef is      *)
(* written all the same).                                                  *)
(***************************************************************************)
\* the cleanup of the query effect
unmount(s) == abortCurrent([s EXCEPT !.debounceRef = NoTimer])

IsMounted == track.tag # "unmounted"

Unmount ==
  /\ IsMounted
  /\ Step(unmount(State), "unmount", 0, NoData, FreeSlot)

InitUnmount == Mounted({MIN_CHARS}, SmallCache, {TRUE}, TRUE)

NextUnmount ==
  \/ IsMounted /\ UpdateInput(FewTexts)
  \/ IsMounted /\ HandleSelection(MaxRequests)
  \/ Unmount
  \/ DebounceFire(MaxRequests)
  \/ FetchResolve
  \/ FetchReject
  \/ BackoffElapse
  \/ SelectionResolve
  \/ SelectionReject

SpecUnmount == InitUnmount /\ [][NextUnmount]_vars

(***************************************************************************)
(* Navigating a list: setSuggestions with lists of every length up to      *)
(* MaxListLen, moveHighlight with every delta up to MaxDelta either way,   *)
(* setHighlightIndex with every index around the list, and typing with a   *)
(* fetchFn that succeeds; the number each callback was called with is      *)
(* observed.                                                               *)
(***************************************************************************)
\* the i-th item: "a", "aa", "aaa", ...
NavItem(i) == [j \in 1..i |-> "a"]

NavLists == { [i \in 1..k |-> NavItem(i)] : k \in 0..MaxListLen }

MoveHighlightBy(D) ==
  \E delta \in D :
    StepWith(moveHighlight(State, delta), "moveHighlight", 0, NoData, FreeSlot,
             delta)

SetHighlightIndexAt(I) ==
  \E idx \in I :
    StepWith(setHighlightIndex(State, idx), "setHighlightIndex", 0, NoData,
             FreeSlot, idx)

SetSuggestionsTo(L) ==
  \E sugs \in L :
    Step(setSuggestions(State, sugs), "setSuggestions", 0, NoData, FreeSlot)

InitNavigation == Mounted({MIN_CHARS}, SmallCache, {FALSE}, FALSE)

NextNavigation ==
  \/ UpdateInput(FewTexts)
  \/ Clear
  \/ SetSuggestionsTo(NavLists)
  \/ MoveHighlightBy((0 - MaxDelta)..MaxDelta)
  \/ SetHighlightIndexAt(-2..MaxListLen)
  \/ DebounceFire(MaxRequests)
  \/ FetchResolve

SpecNavigation == InitNavigation /\ [][NextNavigation]_vars

(***************************************************************************)
(* Input and query: the whole API with every text and both values of       *)
(* minChars, requests that succeed; the text of each updateInput is        *)
(* observed in the data of the event.                                      *)
(***************************************************************************)
TextData(val) == [isArray |-> FALSE, items |-> val]

UpdateInputOf(T) ==
  \E val \in T :
    Step(updateInput(State, val), "updateInput", 0, TextData(val), FreeSlot)

InitInput == Mounted(MinCharsValues, SmallCache, {TRUE}, FALSE)

NextInput ==
  \/ UpdateInputOf(Texts)
  \/ Clear
  \/ MoveHighlight
  \/ SetHighlightIndex
  \/ SetSuggestions
  \/ HandleSelection(MaxInputRequests)
  \/ DebounceFire(MaxInputRequests)
  \/ FetchResolve
  \/ SelectionResolve

SpecInput == InitInput /\ [][NextInput]_vars

(***************************************************************************)
(* Vocabulary of the properties.                                           *)
(***************************************************************************)
Completions ==
  { "fetchResolve", "fetchReject", "backoffElapse", "selectionResolve",
    "selectionReject" }

Visible == << suggestions, loading, error, noResults >>

\* a request whose controller is not aborted and whose function has not returned
Live(req) == Unfinished(req) /\ ~req.aborted

\* this step calls fetchFn
FetchInvoked ==
  \E r \in Slots :
    /\ requests'[r].kind = "primary"
    /\ requests'[r].calls > requests[r].calls

\* the cache key of the query of the state
QueryKey == toLowerCase(trim(query))

(***************************************************************************)
(* C1. Cancellation race under typing: once the query has changed while a  *)
(* fetch attempt sequence was unresolved, no later resolution, rejection   *)
(* or backoff expiry of that sequence changes suggestions, loading, error, *)
(* noResults or the cache; a completion that does change them belongs to   *)
(* the query of the moment.                                                *)
(***************************************************************************)
C1_StaleCompletionWritesNothing ==
  [][ ev'.op \in Completions =>
        /\ requests[ev'.r].superseded =>
              (Visible' = Visible /\ cacheRef' = cacheRef)
        /\ (Visible' # Visible \/ cacheRef' # cacheRef) =>
              requests[ev'.r].q = trim(query') ]_vars

\* a superseded fetch resolved while another query was in the input
C1_Witness ==
  /\ ev.op = "fetchResolve"
  /\ ev.req.superseded
  /\ trim(query) # EmptyText
  /\ ev.req.q # trim(query)

(***************************************************************************)
(* C2. Single live request epoch: at most one request, primary or          *)
(* selection, holds a controller that is not aborted.                      *)
(***************************************************************************)
C2_SingleLiveRequest ==
  Cardinality({ r \in Slots : Live(requests[r]) }) <= 1

(***************************************************************************)
(* C3. Cache hit: when the query changes to a value whose trimmed,         *)
(* lower-cased form is a cache key, the same step sets suggestions to the  *)
(* cached list and noResults to its emptiness, arms no timer, calls no     *)
(* fetchFn and leaves loading as it was.                                   *)
(***************************************************************************)
C3_CacheHit ==
  [][ LET key == toLowerCase(trim(query'))
      IN  (query' # query /\ trim(query') # EmptyText
             /\ cacheHas(cacheRef, key)) =>
            /\ suggestions' = cacheGet(cacheRef, key)
            /\ noResults' = (Len(cacheGet(cacheRef, key)) = 0)
            /\ ~debounceRef'.armed
            /\ ~FetchInvoked
            /\ loading' = loading
            /\ cacheRef' = cacheRef ]_vars

\* a query typed in another letter case than its cache key was served from
\* the cache
C3_Witness ==
  /\ ev.op = "updateInput"
  /\ ev.changed
  /\ query # QueryKey
  /\ cacheHas(cacheRef, QueryKey)
  /\ suggestions = cacheGet(cacheRef, QueryKey)
  /\ Len(suggestions) > 0
  /\ ~debounceRef.armed

(***************************************************************************)
(* C4. Below minChars: updateInput with a text shorter than minChars       *)
(* leaves query empty, suggestions empty, noResults false and error        *)
(* absent; and while the input stays shorter than minChars no step calls   *)
(* fetchFn, retries of an earlier request included.                        *)
(***************************************************************************)
C4_BelowMinChars ==
  [][ /\ (ev'.op = "updateInput" /\ Len(input') < minChars) =>
            /\ query' = EmptyText
            /\ suggestions' = << >>
            /\ ~noResults'
            /\ error' = NoError
      /\ (Len(input) < minChars /\ Len(input') < minChars) =>
            ~FetchInvoked ]_vars

C6_RetrySuccessInvisible ==
  /\ [](\A r \in Slots :
          ( /\ Unfinished(requests[r])
            /\ requests[r].kind = "primary"
            /\ ~requests[r].superseded ) => error = NoError)
  /\ [][ ( /\ ev'.op = "fetchResolve"
           /\ ~requests[ev'.r].superseded
           /\ requests[ev'.r].calls = 2 ) =>
           /\ requests[ev'.r].delays = << BACKOFF_BASE_MS * 1 >>
           /\ suggestions' = coerce(ev'.data)
           /\ ~loading'
           /\ noResults' = (Len(coerce(ev'.data)) = 0)
           /\ error' = NoError ]_vars

(***************************************************************************)
(* C7. Terminal failure: when an attempt of a request that nothing has     *)
(* superseded fails, then either fetchFn has been called RETRY_ATTEMPTS    *)
(* times and the state has error = 'Failed to fetch', suggestions = [],    *)
(* loading = false with the cache untouched, or fewer calls were made and  *)
(* the request waits for its retry with nothing visible changed.           *)
(***************************************************************************)
C7_TerminalFailure ==
  [][ (ev'.op = "fetchReject" /\ ~requests[ev'.r].superseded) =>
        /\ cacheRef' = cacheRef
        /\ IF requests[ev'.r].calls = RETRY_ATTEMPTS
           THEN /\ error' = FETCH_FAILED
                /\ suggestions' = << >>
                /\ ~loading'
                /\ requests'[ev'.r].phase = "done"
           ELSE /\ requests[ev'.r].calls < RETRY_ATTEMPTS
                /\ requests'[ev'.r].phase = "backoff"
                /\ Visible' = Visible ]_vars

\* the last attempt of a request nothing superseded has failed
C7_Witness ==
  /\ ev.op = "fetchReject"
  /\ ~ev.req.superseded
  /\ ev.req.calls = RETRY_ATTEMPTS
  /\ error = FETCH_FAILED

(***************************************************************************)
(* C8. Last query wins and settles: when the user's last action was        *)
(* updateInput(q) with a non-empty trimmed, uncached q and q's fetch has   *)
(* succeeded with list L, the state is and stays suggestions = L, loading  *)
(* = false, error absent, noResults = (L empty), with L cached under q's   *)
(* key.                                                                    *)
(***************************************************************************)
C8_LastQuerySettles ==
  track.tag = "settled" =>
    /\ suggestions = track.list
    /\ ~loading
    /\ error = NoError
    /\ noResults = (Len(track.list) = 0)
    /\ cacheHas(cacheRef, QueryKey)
    /\ cacheGet(cacheRef, QueryKey) = track.list

(***************************************************************************)
(* C9. Selection through the component: when the selection request that    *)
(* handleSelect started resolves with list R and the user has done nothing *)
(* since, the state has suggestions = R, highlight = -1, loading = false.  *)
(***************************************************************************)
C9_SelectionPopulates ==
  ( /\ track.tag = "selected"
    /\ ev.op = "selectionResolve"
    /\ ev.r = track.r
    /\ ev.data.isArray ) =>
    /\ suggestions = coerce(ev.data)
    /\ highlight = -1
    /\ ~loading

(***************************************************************************)
(* C10. handleSelection outcome: without selectionFn handleSelection       *)
(* changes nothing; with it, selectionFn is called once and never again;   *)
(* a resolution on a controller that is not aborted sets suggestions to    *)
(* the list, noResults to its emptiness, loading to false and highlight to *)
(* -1; a rejection sets the selection's own error message, suggestions =   *)
(* [] and loading = false.                                                 *)
(***************************************************************************)
C10_HandleSelectionOutcome ==
  [][ /\ (ev'.op = "handleSelection" /\ ~hasSelectionFn) =>
            (Visible' = Visible /\ input' = input /\ query' = query
               /\ highlight' = highlight /\ cacheRef' = cacheRef
               /\ requests' = requests /\ abortRef' = abortRef
               /\ debounceRef' = debounceRef)
      /\ (ev'.op = "handleSelection" /\ hasSelectionFn) =>
            /\ requests'[ev'.r].kind = "selection"
            /\ requests'[ev'.r].calls = 1
            /\ ~FetchInvoked
      /\ ev'.op \in {"selectionResolve", "selectionReject"} =>
            requests'[ev'.r].phase = "done"
      /\ (ev'.op = "selectionResolve" /\ ~requests[ev'.r].aborted) =>
            /\ suggestions' = coerce(ev'.data)
            /\ noResults' = (Len(coerce(ev'.data)) = 0)
            /\ ~loading'
            /\ highlight' = -1
      /\ (ev'.op = "selectionReject" /\ ~requests[ev'.r].aborted) =>
            /\ error' = SELECTION_FAILED
            /\ error' # FETCH_FAILED
            /\ suggestions' = << >>
            /\ ~loading' ]_vars

\* a selection that was not cancelled failed and shows its own message
C10_Witness ==
  /\ ev.op = "selectionReject"
  /\ ~ev.req.aborted
  /\ error = SELECTION_FAILED

(***************************************************************************)
(* C11. Single-step navigation wrap: on an empty list moveHighlight gives  *)
(* -1; on n >= 1 suggestions moveHighlight(+1) goes from h to h+1, and     *)
(* from the last item to 0, and moveHighlight(-1) goes from h >= 1 to h-1  *)
(* and from 0 or -1 to the last item.                                      *)
(***************************************************************************)
C11_SingleStepWrap ==
  [][ (ev'.op = "moveHighlight" /\ ev'.arg \in {-1, 1}) =>
        LET n == Len(suggestions)
            h == highlight
        IN  highlight' =
              IF n = 0 THEN -1
              ELSE IF ev'.arg = 1
                   THEN (IF h < n - 1 THEN h + 1 ELSE 0)
                   ELSE (IF h >= 1 THEN h - 1 ELSE n - 1) ]_vars

\* moveHighlight(-1) ended on the last of three suggestions: it wrapped from
\* 0 or -1
C11_Witness ==
  /\ ev.op = "moveHighlight"
  /\ ev.arg = -1
  /\ Len(suggestions) = 3
  /\ highlight = 2

(***************************************************************************)
(* C12. Arbitrary-delta navigation: for every integer delta, every list    *)
(* length n >= 1 and every highlight h in 0..n-1, moveHighlight(delta)     *)
(* sets highlight to the non-negative remainder of h + delta modulo n.     *)
(***************************************************************************)
C12_ArbitraryDelta ==
  [][ ( /\ ev'.op = "moveHighlight"
        /\ Len(suggestions) >= 1
        /\ highlight \in 0..(Len(suggestions) - 1) ) =>
        highlight' = (highlight + ev'.arg) % Len(suggestions) ]_vars

(***************************************************************************)
(* C15. setHighlightIndex(idx) leaves the whole state unchanged when       *)
(* idx < -1 or idx >= len(suggestions); otherwise it sets highlight to     *)
(* idx and changes nothing else; -1 is accepted for every list length.     *)
(***************************************************************************)
C15_SetHighlightIndex ==
  [][ ev'.op = "setHighlightIndex" =>
        IF ev'.arg < -1 \/ ev'.arg >= Len(suggestions)
        THEN State' = State
        ELSE State' = [State EXCEPT !.highlight = ev'.arg] ]_vars

\* an index equal to the length of a non-empty list was ignored, the
\* highlight staying on an item
C15_Witness ==
  /\ ev.op = "setHighlightIndex"
  /\ ev.arg = Len(suggestions)
  /\ Len(suggestions) >= 1
  /\ highlight >= 0

(***************************************************************************)
(* C13. Highlight range invariant: after every action and every async      *)
(* completion, once the effects have run, highlight is at least -1 and at  *)
(* most len(suggestions) - 1.                                              *)
(***************************************************************************)
C13_HighlightInRange ==
  /\ highlight >= -1
  /\ highlight <= Len(suggestions) - 1

\* setSuggestions put a list shorter than the highlight and the effect reset it
C13_Witness ==
  /\ ev.op = "setSuggestions"
  /\ ev.reset
  /\ highlight = -1

(***************************************************************************)
(* C14. Out-of-range reset is a reset, not a clamp: when setSuggestions, a *)
(* cache hit or a primary fetch result replaces the list by one of length  *)
(* m while highlight = h, highlight becomes -1 if h >= m and stays h if    *)
(* h < m. (A cache hit follows updateInput, which has set h to -1.)        *)
(***************************************************************************)
C14_ResetNotClamp ==
  [][ /\ ( \/ ev'.op = "setSuggestions"
           \/ ev'.op = "fetchResolve" /\ ~requests[ev'.r].aborted ) =>
          highlight' = IF highlight >= Len(suggestions') THEN -1 ELSE highlight
      /\ ( /\ ev'.op = "updateInput"
           /\ ev'.changed
           /\ trim(query') # EmptyText
           /\ cacheHas(cacheRef, toLowerCase(trim(query'))) ) =>
          highlight' = -1 ]_vars

\* a fetch result that is not empty, yet shorter than the highlight, arrived
\* and the highlight was reset
C14_Witness ==
  /\ ev.op = "fetchResolve"
  /\ ev.reset
  /\ ~ev.req.aborted
  /\ Len(suggestions) >= 1
  /\ highlight = -1

(***************************************************************************)
(* C16. clear() is idempotent: in every reachable state, clear() followed  *)
(* by clear() gives the state a single clear() gives, and that state has   *)
(* input = '', query = '', suggestions = [], highlight = -1, noResults =   *)
(* false and no error.                                                     *)
(***************************************************************************)
C16_ClearIdempotent ==
  /\ [](LET once == render(State, clear(State))
        IN  render(once, clear(once)) = once)
  /\ [][ ev'.op = "clear" =>
           /\ input' = EmptyText
           /\ query' = EmptyText
           /\ suggestions' = << >>
           /\ highlight' = -1
           /\ ~noResults'
           /\ error' = NoError ]_vars

\* clear() acted on a state with a query, its effect running
C16_Witness ==
  /\ ev.op = "clear"
  /\ ev.changed
  /\ input = EmptyText
  /\ suggestions = << >>

(***************************************************************************)
(* C17. clear() cancels everything: after clear(), and until the user acts *)
(* again, no debounce timer is pending and no completion of a request,     *)
(* primary or selection, changes suggestions, loading, error, noResults or *)
(* the cache.                                                              *)
(***************************************************************************)
C17_ClearCancels ==
  /\ [](track.tag = "cleared" => ~debounceRef.armed)
  /\ [][ (track.tag = "cleared" /\ ev'.op \in Completions) =>
           (Visible' = Visible /\ cacheRef' = cacheRef) ]_vars

(***************************************************************************)
(* C18. No late writes after disposal: once the hook is unmounted no       *)
(* debounce timer is pending, and no completion of a request started       *)
(* before the unmount, primary or selection, writes suggestions, loading,  *)
(* error, noResults or the cache.                                          *)
(***************************************************************************)
C18_NoLateWrites ==
  /\ [](track.tag = "unmounted" => ~debounceRef.armed)
  /\ [][ (track.tag = "unmounted" /\ ev'.op \in Completions) =>
           (Visible' = Visible /\ cacheRef' = cacheRef) ]_vars

(***************************************************************************)
(* C19. Mutually exclusive display: in every reachable state the component *)
(* shows at most one of the loading indicator, the error message, the      *)
(* no-suggestions notice and the suggestion list.                          *)
(***************************************************************************)
C19_ExclusiveDisplay ==
  LET shown == << ShowsLoading, ShowsError, ShowsNoResults, ShowsList >>
  IN  Cardinality({ i \in 1..4 : shown[i] }) <= 1

(***************************************************************************)
(* C20. Escape key protocol: Escape on a non-empty list empties it and     *)
(* sets highlight to -1, leaving input and query; Escape on an empty list  *)
(* with a non-empty input is clear(); and after an Escape the list stays   *)
(* closed until the user types or selects again.                           *)
(***************************************************************************)
C20_EscapeProtocol ==
  /\ [][ ev'.op = "keyEscape" =>
           IF Len(suggestions) > 0
           THEN /\ suggestions' = << >>
                /\ highlight' = -1
                /\ input' = input
                /\ query' = query
           ELSE IF input # EmptyText
           THEN State' = render(State, clear(State))
           ELSE State' = State ]_vars
  /\ [](track.tag = "escaped" => ~ShowsList)

(***************************************************************************)
(* C21. The effective query is a function of the input: in every state     *)
(* query = input when len(input) >= minChars and query = '' otherwise;     *)
(* updateInput(text) sets input = text and highlight = -1; and no action   *)
(* other than updateInput and clear changes input or query.                *)
(***************************************************************************)
C21_QueryFollowsInput ==
  /\ [](query = IF Len(input) >= minChars THEN input ELSE EmptyText)
  /\ [][ /\ ev'.op = "updateInput" =>
               (input' = ev'.data.items /\ highlight' = -1)
         /\ ev'.op \notin {"updateInput", "clear"} =>
               (input' = input /\ query' = query) ]_vars

\* updateInput with a non-empty text shorter than minChars emptied the query
C21_Witness ==
  /\ ev.op = "updateInput"
  /\ ev.changed
  /\ input # EmptyText
  /\ Len(input) < minChars
  /\ query = EmptyText

(***************************************************************************)
(* C22. Trailing-edge debounce: the timer that is armed, if any, is the    *)
(* one armed for the query of the moment (every change of the query has    *)
(* cancelled the one before), and when it fires it is disarmed and the     *)
(* first attempt of the fetch is invoked, once, with the trimmed query of  *)
(* that moment; so of a burst of updateInput calls only the last query's   *)
(* fetch is started.                                                       *)
(***************************************************************************)
C22_TrailingDebounce ==
  /\ [](debounceRef.armed =>
          (debounceRef.q = trim(query) /\ debounceRef.q # EmptyText))
  /\ [][ ev'.op = "debounceFire" =>
           /\ debounceRef.armed
           /\ ~debounceRef'.armed
           /\ requests'[ev'.r].q = trim(query')
           /\ requests'[ev'.r].calls = 1
           /\ \A r \in Slots :
                 r # ev'.r => requests'[r].calls = requests[r].calls ]_vars

\* the timer fired and the fetch started with the trimmed form of a query
\* typed with blanks
C22_Witness ==
  /\ ev.op = "debounceFire"
  /\ query # trim(query)
  /\ requests[ev.r].kind = "primary"
  /\ requests[ev.r].q = trim(query)

(***************************************************************************)
(* C23. No fetch on a dead token: fetchFn is never invoked on a controller *)
(* that is already aborted; a sequence aborted during its backoff wait     *)
(* ends there, with no further call of fetchFn.                            *)
(***************************************************************************)
C23_NoFetchOnDeadToken ==
  [][ \A r \in Slots :
        ( /\ requests'[r].kind = "primary"
          /\ requests'[r].calls > requests[r].calls ) =>
            ~requests'[r].aborted ]_vars

(***************************************************************************)
(* C24. Malformed results are coerced: when a call of fetchFn or           *)
(* selectionFn on a controller that is not aborted resolves with a value   *)
(* that is not an array, suggestions becomes [], noResults true, loading   *)
(* false, and error is absent; the request ends with no retry; and for     *)
(* fetchFn the empty list is cached under the key of the request's query.  *)
(***************************************************************************)
C24_MalformedCoerced ==
  [][ ( /\ ev'.op \in {"fetchResolve", "selectionResolve"}
        /\ ~ev'.data.isArray
        /\ ~requests[ev'.r].aborted ) =>
          /\ suggestions' = << >>
          /\ noResults'
          /\ ~loading'
          /\ error' = NoError
          /\ requests'[ev'.r].phase = "done"
          /\ \A r \in Slots : requests'[r].calls <= requests[r].calls
          /\ ev'.op = "fetchResolve" =>
                LET key == toLowerCase(requests[ev'.r].q)
                IN  /\ cacheHas(cacheRef', key)
                    /\ cacheGet(cacheRef', key) = << >> ]_vars

(***************************************************************************)
(* C25. Loading never sticks: in every reachable state where loading is    *)
(* true, a request whose controller is not aborted is still in progress.   *)
(***************************************************************************)
C25_LoadingNeverSticks ==
  loading => \E r \in Slots : Live(requests[r])

(***************************************************************************)
(* C26. Cache content integrity: every cache key is a non-empty, trimmed,  *)
(* lower-cased query, held once; an entry is created or changed only by a  *)
(* fetchFn call that resolves on a controller that is not aborted, under   *)
(* the key of that call's query and with its coerced result; rejections,   *)
(* aborted calls and selectionFn results leave the cache as it is; and an  *)
(* entry is removed only as the oldest one, when the cache is over its     *)
(* bound.                                                                  *)
(***************************************************************************)
C26_CacheIntegrity ==
  /\ [](\A i \in 1..Len(cacheRef) :
          LET k == cacheRef[i].key
          IN  /\ k # EmptyText
              /\ trim(k) = k
              /\ toLowerCase(k) = k
              /\ \A j \in 1..Len(cacheRef) : cacheRef[j].key = k => j = i)
  /\ [][ LET stored == ev'.op = "fetchResolve" /\ ~requests[ev'.r].aborted
         IN  /\ \A i \in 1..Len(cacheRef') :
                   \/ \E j \in 1..Len(cacheRef) : cacheRef[j] = cacheRef'[i]
                   \/ /\ stored
                      /\ cacheRef'[i].key = toLowerCase(trim(requests[ev'.r].q))
                      /\ cacheRef'[i].val = coerce(ev'.data)
             /\ \A j \in 1..Len(cacheRef) :
                   cacheRef[j].key \notin cacheKeys(cacheRef') =>
                     /\ stored
                     /\ j = 1
                     /\ Len(cacheRef) = maxCache
                     /\ toLowerCase(requests[ev'.r].q) \notin cacheKeys(cacheRef)
             /\ ~stored => cacheRef' = cacheRef ]_vars

\* a fetch of a query typed with a capital and a blank was stored under the
\* trimmed, lower-cased key, taking the place of an older entry
C26_Witness ==
  /\ ev.op = "fetchResolve"
  /\ ~ev.req.aborted
  /\ ev.req.q # toLowerCase(ev.req.q)
  /\ ev.removed # {}
  /\ cacheHas(cacheRef, toLowerCase(ev.req.q))
  /\ cacheGet(cacheRef, toLowerCase(ev.req.q)) = coerce(ev.data)

(***************************************************************************)
(* C27. noResults implies an empty list: in every reachable state where    *)
(* noResults is true, suggestions is [] and error is absent.               *)
(***************************************************************************)
C27_NoResultsMeansEmpty ==
  noResults => (suggestions = << >> /\ error = NoError)

(***************************************************************************)
(* C28. Whitespace-only input behaves like empty input: after updateInput  *)
(* of a text of at least minChars characters that is empty once trimmed,   *)
(* no timer is armed, fetchFn is not called, and suggestions, noResults    *)
(* and error are cleared as they are after a text shorter than minChars.   *)
(***************************************************************************)
C28_BlankInputClears ==
  [][ ( /\ ev'.op = "updateInput"
        /\ Len(input') >= minChars
        /\ trim(input') = EmptyText ) =>
          /\ ~debounceRef'.armed
          /\ ~FetchInvoked
          /\ suggestions' = << >>
          /\ ~noResults'
          /\ error' = NoError ]_vars

====
